---- MODULE Spec2Model ----
(***************************************************************************)
(* Honeypot decision pipeline: identifier extraction (entity_extractor.py),*)
(* engagement strategy (strategy_engine.py), response generation           *)
(* (conversation_agent.py) and orchestration (main.py).                    *)
(*                                                                         *)
(* Strings are sequences of one-character strings, so that normalisation,  *)
(* trimming and lower-casing are computed as the code computes them.  The  *)
(* results of the regular-expression library on a message (match spans,    *)
(* pattern hits) are data of the message catalogue below.                  *)
(***************************************************************************)
EXTENDS Integers, Sequences, FiniteSets, TLC

VARIABLES
    cfg,                  \* config: the settings read by the pipeline
    state,                \* strategy.state: ConversationState
    extracted_entities,   \* extractor.extracted_entities
    memory,               \* persona_manager.memory, NoMemory before a persona is selected
    current_persona,      \* persona_manager.current_persona
    conversation_active,  \* agent.conversation_active
    fallback_index,       \* llm.fallback_index
    now,                  \* wall clock, whole minutes since the module was imported
    pc,                   \* position of process_message / _conversation_loop
    loop,                 \* locals of _conversation_loop
    ret,                  \* what the last call returned and did
    calls                 \* number of calls made so far (bounded)

vars == <<cfg, state, extracted_entities, memory, current_persona,
          conversation_active, fallback_index, now, pc, loop, ret, calls>>

(***************************************************************************)
(* String helpers (Python str semantics on character sequences)            *)
(***************************************************************************)
Min(a, b) == IF a <= b THEN a ELSE b

Max(a, b) == IF a >= b THEN a ELSE b

Range(s) == {s[i] : i \in 1..Len(s)}

DigitChars == <<"0", "1", "2", "3", "4", "5", "6", "7", "8", "9">>

UpperChars == <<"A", "B", "C", "D", "E", "F", "G", "H", "I", "J", "K", "L", "M",
                "N", "O", "P", "Q", "R", "S", "T", "U", "V", "W", "X", "Y", "Z">>

LowerChars == <<"a", "b", "c", "d", "e", "f", "g", "h", "i", "j", "k", "l", "m",
                "n", "o", "p", "q", "r", "s", "t", "u", "v", "w", "x", "y", "z">>

Whitespace == {" ", "\t", "\n", "\r"}

DigitSet == Range(DigitChars)

UpperSet == Range(UpperChars)

\* the lower-case letter of each upper-case one
ToLower == [c \in UpperSet |-> LowerChars[CHOOSE i \in 1..Len(UpperChars) : UpperChars[i] = c]]

IsDigit(c) == c \in DigitSet

DigitVal(c) == (CHOOSE i \in 1..Len(DigitChars) : DigitChars[i] = c) - 1

LowerChar(c) == IF c \in UpperSet THEN ToLower[c] ELSE c

\* str.lower()
Lower(s) == [i \in 1..Len(s) |-> LowerChar(s[i])]

\* str.strip()
Strip(s) ==
    IF s = <<>> \/ (s[1] \notin Whitespace /\ s[Len(s)] \notin Whitespace) THEN s
    ELSE
    LET leading == {i \in 1..Len(s) : \A j \in 1..i : s[j] \in Whitespace}
        trailing == {i \in 1..Len(s) : \A j \in i..Len(s) : s[j] \in Whitespace}
    IN SubSeq(s, Cardinality(leading) + 1, Len(s) - Cardinality(trailing))

\* str.startswith / str.endswith / substring test `sub in s`
StartsWith(s, p) == Len(p) <= Len(s) /\ SubSeq(s, 1, Len(p)) = p

EndsWith(s, p) == Len(p) <= Len(s) /\ SubSeq(s, Len(s) - Len(p) + 1, Len(s)) = p

Contains(s, sub) ==
    \E i \in 0..(Len(s) - Len(sub)) : SubSeq(s, i + 1, i + Len(sub)) = sub

\* str.replace(old, new): leftmost non-overlapping occurrences
RECURSIVE Replace(_, _, _)
Replace(s, old, new) ==
    IF Len(s) < Len(old) THEN s
    ELSE IF SubSeq(s, 1, Len(old)) = old
         THEN new \o Replace(SubSeq(s, Len(old) + 1, Len(s)), old, new)
         ELSE <<s[1]>> \o Replace(Tail(s), old, new)

(***************************************************************************)
(* Message catalogue: the inbound texts the model draws from, with the     *)
(* spans and hits the regular expressions of the source report on them     *)
(***************************************************************************)
msg_hello ==
    [text |-> <<"h", "e", "l", "l", "o">>,
     matches |-> <<>>,
     explicit |-> FALSE, suspicion |-> <<>>, unproductive |-> <<>>, media |-> FALSE,
     kw |-> [urgency |-> 0, money |-> 0, threat |-> 0, request |-> 0, prize |-> 0, job |-> 0],
     found |-> [phone |-> 0, bank |-> 0, upi |-> <<>>, url |-> <<>>, payment |-> 0, obfuscated |-> FALSE]]

msg_hello_cased ==
    [text |-> <<" ", "H", "e", "l", "l", "o", " ">>,
     matches |-> <<>>,
     explicit |-> FALSE, suspicion |-> <<>>, unproductive |-> <<>>, media |-> FALSE,
     kw |-> [urgency |-> 0, money |-> 0, threat |-> 0, request |-> 0, prize |-> 0, job |-> 0],
     found |-> [phone |-> 0, bank |-> 0, upi |-> <<>>, url |-> <<>>, payment |-> 0, obfuscated |-> FALSE]]

msg_real ==
    [text |-> <<"a", "r", "e", " ", "y", "o", "u", " ", "r", "e", "a", "l">>,
     matches |-> <<>>,
     explicit |-> FALSE, suspicion |-> <<2>>, unproductive |-> <<>>, media |-> FALSE,
     kw |-> [urgency |-> 0, money |-> 0, threat |-> 0, request |-> 0, prize |-> 0, job |-> 0],
     found |-> [phone |-> 0, bank |-> 0, upi |-> <<>>, url |-> <<>>, payment |-> 0, obfuscated |-> FALSE]]

msg_bot ==
    [text |-> <<"a", "r", "e", " ", "y", "o", "u", " ", "a", " ", "b", "o", "t", "?", " ", "c", "a", "l", "l", " ", "m", "e">>,
     matches |-> <<>>,
     explicit |-> FALSE, suspicion |-> <<1, 4>>, unproductive |-> <<>>, media |-> TRUE,
     kw |-> [urgency |-> 0, money |-> 0, threat |-> 0, request |-> 0, prize |-> 0, job |-> 0],
     found |-> [phone |-> 0, bank |-> 0, upi |-> <<>>, url |-> <<>>, payment |-> 0, obfuscated |-> FALSE]]

msg_pay ==
    [text |-> <<"p", "a", "y", " ", "t", "o", " ", "5", "0", "2", "9", "1", "3", "7", "4", "6">>,
     matches |-> <<[entity_type |-> "bank_account", start |-> 7, end |-> 16]>>,
     explicit |-> TRUE, suspicion |-> <<>>, unproductive |-> <<>>, media |-> FALSE,
     kw |-> [urgency |-> 0, money |-> 0, threat |-> 0, request |-> 0, prize |-> 0, job |-> 0],
     found |-> [phone |-> 0, bank |-> 1, upi |-> <<>>, url |-> <<>>, payment |-> 0, obfuscated |-> FALSE]]

msg_acct ==
    [text |-> <<"a", "/", "c", " ", "5", "0", "2", "9", "-", "1", "3", "7", "4", "6">>,
     matches |-> <<[entity_type |-> "bank_account", start |-> 4, end |-> 14]>>,
     explicit |-> FALSE, suspicion |-> <<>>, unproductive |-> <<>>, media |-> FALSE,
     kw |-> [urgency |-> 0, money |-> 0, threat |-> 0, request |-> 0, prize |-> 0, job |-> 0],
     found |-> [phone |-> 0, bank |-> 0, upi |-> <<>>, url |-> <<>>, payment |-> 0, obfuscated |-> FALSE]]

msg_fake ==
    [text |-> <<"u", "s", "e", " ", "t", "h", "i", "s", " ", "1", "1", "1", "1", "1", "1", "1", "1", "1">>,
     matches |-> <<[entity_type |-> "bank_account", start |-> 9, end |-> 18]>>,
     explicit |-> TRUE, suspicion |-> <<>>, unproductive |-> <<>>, media |-> FALSE,
     kw |-> [urgency |-> 0, money |-> 0, threat |-> 0, request |-> 0, prize |-> 0, job |-> 0],
     found |-> [phone |-> 0, bank |-> 1, upi |-> <<>>, url |-> <<>>, payment |-> 0, obfuscated |-> FALSE]]

msg_twice ==
    [text |-> <<"5", "0", "2", "9", "1", "3", "7", "4", "6", " ", "o", "r", " ", "5", "0", "2", "9", "1", "3", "7", "4", "6">>,
     matches |-> <<[entity_type |-> "bank_account", start |-> 0, end |-> 10],
                   [entity_type |-> "bank_account", start |-> 13, end |-> 22]>>,
     explicit |-> FALSE, suspicion |-> <<>>, unproductive |-> <<>>, media |-> FALSE,
     kw |-> [urgency |-> 0, money |-> 0, threat |-> 0, request |-> 0, prize |-> 0, job |-> 0],
     found |-> [phone |-> 0, bank |-> 2, upi |-> <<>>, url |-> <<>>, payment |-> 0, obfuscated |-> FALSE]]

msg_upi ==
    [text |-> <<"u", "p", "i", " ", "r", "a", "j", "@", "y", "b", "l">>,
     matches |-> <<[entity_type |-> "upi_id", start |-> 4, end |-> 11]>>,
     explicit |-> FALSE, suspicion |-> <<>>, unproductive |-> <<>>, media |-> FALSE,
     kw |-> [urgency |-> 0, money |-> 1, threat |-> 0, request |-> 0, prize |-> 0, job |-> 0],
     found |-> [phone |-> 0, bank |-> 0, upi |-> <<<<"r", "a", "j", "@", "y", "b", "l">>>>, url |-> <<>>, payment |-> 1, obfuscated |-> FALSE]]

msg_upi_at ==
    [text |-> <<"R", "a", "j", "(", "a", "t", ")", "y", "b", "l">>,
     matches |-> <<[entity_type |-> "upi_id", start |-> 0, end |-> 10]>>,
     explicit |-> FALSE, suspicion |-> <<>>, unproductive |-> <<>>, media |-> FALSE,
     kw |-> [urgency |-> 0, money |-> 0, threat |-> 0, request |-> 0, prize |-> 0, job |-> 0],
     found |-> [phone |-> 0, bank |-> 0, upi |-> <<>>, url |-> <<>>, payment |-> 0, obfuscated |-> FALSE]]

msg_phone ==
    [text |-> <<"s", "e", "n", "d", " ", "t", "o", " ", "1", "1", "1", "1", "1", "1", "1", "1", "1", "1", "1">>,
     matches |-> <<[entity_type |-> "bank_account", start |-> 8, end |-> 19],
                   [entity_type |-> "phone_number", start |-> 8, end |-> 19],
                   [entity_type |-> "phone_number", start |-> 8, end |-> 19]>>,
     explicit |-> TRUE, suspicion |-> <<>>, unproductive |-> <<>>, media |-> FALSE,
     kw |-> [urgency |-> 0, money |-> 0, threat |-> 0, request |-> 1, prize |-> 0, job |-> 0],
     found |-> [phone |-> 1, bank |-> 1, upi |-> <<>>, url |-> <<>>, payment |-> 0, obfuscated |-> FALSE]]

msg_mail ==
    [text |-> <<"A", "n", "n", "(", "a", "t", ")", "x", ".", "i", "n">>,
     matches |-> <<[entity_type |-> "upi_id", start |-> 0, end |-> 11]>>,
     explicit |-> FALSE, suspicion |-> <<>>, unproductive |-> <<>>, media |-> FALSE,
     kw |-> [urgency |-> 0, money |-> 0, threat |-> 0, request |-> 0, prize |-> 0, job |-> 0],
     found |-> [phone |-> 0, bank |-> 0, upi |-> <<>>, url |-> <<>>, payment |-> 0, obfuscated |-> FALSE]]

msg_url ==
    [text |-> <<"w", "w", "w", ".", "x", ".", "t", "k">>,
     matches |-> <<[entity_type |-> "url", start |-> 0, end |-> 8]>>,
     explicit |-> FALSE, suspicion |-> <<>>, unproductive |-> <<>>, media |-> FALSE,
     kw |-> [urgency |-> 0, money |-> 0, threat |-> 0, request |-> 0, prize |-> 0, job |-> 0],
     found |-> [phone |-> 0, bank |-> 0, upi |-> <<>>, url |-> <<<<"w", "w", "w", ".", "x", ".", "t", "k">>>>, payment |-> 0, obfuscated |-> FALSE]]

\* the example message of the end-to-end scenario
msg_prize ==
    [text |-> <<"C", "o", "n", "g", "r", "a", "t", "u", "l", "a", "t", "i", "o", "n", "s", "!", " ", "Y", "o", "u", " ", "h", "a", "v", "e", " ", "W", "O", "N", " ", "₹", "2", "5", " ", "L", "A", "K", "H", "!", " ", "P", "a", "y", " ", "₹", "5", "0", "0", "0", " ", "p", "r", "o", "c", "e", "s", "s", "i", "n", "g", " ", "f", "e", "e", " ", "t", "o", " ", "c", "l", "a", "i", "m", ".", " ", "S", "e", "n", "d", " ", "t", "o", " ", "U", "P", "I", ":", " ", "c", "l", "a", "i", "m", "@", "p", "a", "y", "t", "m">>,
     matches |-> <<[entity_type |-> "upi_id", start |-> 88, end |-> 99],
                   [entity_type |-> "upi_id", start |-> 0, end |-> 15]>>,
     explicit |-> TRUE, suspicion |-> <<>>, unproductive |-> <<>>, media |-> FALSE,
     kw |-> [urgency |-> 0, money |-> 3, threat |-> 0, request |-> 1, prize |-> 2, job |-> 0],
     found |-> [phone |-> 0, bank |-> 0, upi |-> <<<<"c", "l", "a", "i", "m", "@", "p", "a", "y", "t", "m">>>>, url |-> <<>>, payment |-> 2, obfuscated |-> FALSE]]

msg_urgent ==
    [text |-> <<"U", "R", "G", "E", "N", "T", ":", " ", "a", "c", "c", "o", "u", "n", "t", " ", "b", "l", "o", "c", "k", "e", "d", " ", "a", "n", "d", " ", "s", "u", "s", "p", "e", "n", "d", "e", "d", ",", " ", "t", "r", "a", "n", "s", "f", "e", "r", " ", "m", "o", "n", "e", "y", " ", "i", "m", "m", "e", "d", "i", "a", "t", "e", "l", "y">>,
     matches |-> <<[entity_type |-> "upi_id", start |-> 54, end |-> 65]>>,
     explicit |-> FALSE, suspicion |-> <<>>, unproductive |-> <<>>, media |-> FALSE,
     kw |-> [urgency |-> 2, money |-> 3, threat |-> 3, request |-> 0, prize |-> 0, job |-> 0],
     found |-> [phone |-> 0, bank |-> 0, upi |-> <<>>, url |-> <<>>, payment |-> 0, obfuscated |-> FALSE]]

Messages == {msg_hello, msg_hello_cased, msg_real, msg_bot, msg_pay, msg_acct, msg_fake,
             msg_twice, msg_upi, msg_upi_at, msg_phone, msg_mail, msg_url}

(***************************************************************************)
(* utils.py: DataNormalizer                                                *)
(***************************************************************************)
normalize_phone(phone) == SelectSeq(phone, LAMBDA c : IsDigit(c) \/ c = "+")

normalize_bank_account(account) ==
    SelectSeq(account, LAMBDA c : c \notin Whitespace /\ c # "-")

normalize_upi(upi) ==
    LET a == Replace(upi, <<"(", "a", "t", ")">>, <<"@">>)
        b == Replace(a, <<"[", "a", "t", "]">>, <<"@">>)
        c == Replace(b, <<" ", "a", "t", " ">>, <<"@">>)
    IN Strip(Lower(c))

SchemeHttp == <<"h", "t", "t", "p", ":", "/", "/">>

SchemeHttps == <<"h", "t", "t", "p", "s", ":", "/", "/">>

normalize_url(url) ==
    LET u == Strip(url)
    IN IF StartsWith(u, SchemeHttp) \/ StartsWith(u, SchemeHttps) THEN u
       ELSE SchemeHttps \o u

test_keywords ==
    {<<"t", "e", "s", "t">>, <<"d", "u", "m", "m", "y">>, <<"f", "a", "k", "e">>,
     <<"e", "x", "a", "m", "p", "l", "e">>,
     <<"0", "0", "0", "0", "0", "0">>, <<"9", "9", "9", "9", "9", "9">>}

\* the entity-type names whose digits is_likely_fake inspects
FakeDigitTypes == {"bank_account", "phone"}

is_likely_fake(value, entity_type) ==
    LET digits == SelectSeq(value, IsDigit)
        is_sequential ==
            \A i \in 1..(Min(6, Len(digits)) - 1) :
                DigitVal(digits[i + 1]) = DigitVal(digits[i]) + 1
        value_lower == Lower(value)
    IN \/ /\ entity_type \in FakeDigitTypes
          /\ \/ Len(digits) >= 6 /\ is_sequential
             \/ Cardinality(Range(digits)) <= 2
       \/ \E keyword \in test_keywords : Contains(value_lower, keyword)

(***************************************************************************)
(* entity_extractor.py: EntityExtractor                                    *)
(***************************************************************************)
EntityTypes == {"bank_account", "upi_id", "phone_number", "url", "email", "crypto_address"}

ConfidenceLevels == {"high", "medium", "low", "needs_verification"}

Roles == {"scammer", "victim"}

\* requests.head(url, allow_redirects=True): the final URL, or a failure
RedirectTarget == SchemeHttps \o <<"e", "v", "i", "l", ".", "t", "k">>

NetOutcomes == {"fail", "same", "redirect"}

_expand_url(url, net) == IF net = "redirect" THEN RedirectTarget ELSE url

_normalize(value, entity_type, net) ==
    IF ~cfg.enable_normalization THEN value
    ELSE IF entity_type = "bank_account" THEN normalize_bank_account(value)
    ELSE IF entity_type = "upi_id" THEN normalize_upi(value)
    ELSE IF entity_type = "phone_number" THEN normalize_phone(value)
    ELSE IF entity_type = "url"
         THEN IF cfg.enable_url_expansion
              THEN _expand_url(normalize_url(value), net)
              ELSE normalize_url(value)
    ELSE Strip(value)

\* the explicit-provision test made before the authenticity test
_assess_confidence_explicit_first(value, entity_type, message, role) ==
    IF role = "victim" THEN "low"
    ELSE IF message.explicit THEN "high"
    ELSE IF is_likely_fake(value, entity_type) THEN "needs_verification"
    ELSE "medium"

_assess_confidence(value, entity_type, message, role) ==
    IF role = "victim" THEN "low"
    ELSE IF is_likely_fake(value, entity_type) THEN "needs_verification"
    ELSE IF message.explicit THEN "high"
    ELSE "medium"

ContextWindow == 30

_get_context(text, start, end) ==
    SubSeq(text, Max(0, start - ContextWindow) + 1, Min(Len(text), end + ContextWindow))

email_domains ==
    {<<".", "c", "o", "m">>, <<".", "o", "r", "g">>, <<".", "n", "e", "t">>, <<".", "i", "n">>,
     <<".", "c", "o">>, <<".", "e", "d", "u">>, <<".", "g", "o", "v">>}

_is_likely_email(value) == \E domain \in email_domains : EndsWith(Lower(value), domain)

\* a comparison on the raw value instead of the normalized one
_is_duplicate_raw(entities, entity) ==
    \E i \in 1..Len(entities) :
        /\ entities[i].entity_type = entity.entity_type
        /\ entities[i].value = entity.value

_is_duplicate(entities, entity) ==
    \E i \in 1..Len(entities) :
        /\ entities[i].entity_type = entity.entity_type
        /\ entities[i].normalized_value = entity.normalized_value

\* lines 93-124 of extract: the entities of one message, in match order
MatchedEntities(message, role, net) ==
    LET kept == SelectSeq(message.matches,
                    LAMBDA m : ~(m.entity_type = "upi_id"
                                 /\ _is_likely_email(SubSeq(message.text, m.start + 1, m.end))))
        Entity(m) ==
            LET raw_value == SubSeq(message.text, m.start + 1, m.end)
                normalized_value == _normalize(raw_value, m.entity_type, net)
            IN [entity_type |-> m.entity_type,
                value |-> raw_value,
                normalized_value |-> normalized_value,
                confidence |-> _assess_confidence(normalized_value, m.entity_type, message, role),
                context |-> _get_context(message.text, m.start, m.end),
                source_message |-> message.text]
    IN [i \in 1..Len(kept) |-> Entity(kept[i])]

\* a running set in which a later match takes the place of the stored entry
RECURSIVE AddReplacing(_, _)
AddReplacing(running, entities) ==
    IF entities = <<>> THEN running
    ELSE AddReplacing(
             IF _is_duplicate(running, Head(entities))
             THEN [i \in 1..Len(running) |->
                      IF running[i].entity_type = Head(entities).entity_type
                         /\ running[i].normalized_value = Head(entities).normalized_value
                      THEN Head(entities) ELSE running[i]]
             ELSE Append(running, Head(entities)),
             Tail(entities))

\* lines 126-129 of extract: append each entity that is no duplicate
RECURSIVE AddDeduplicated(_, _)
AddDeduplicated(running, entities) ==
    IF entities = <<>> THEN running
    ELSE AddDeduplicated(
             IF _is_duplicate(running, Head(entities)) THEN running
             ELSE Append(running, Head(entities)),
             Tail(entities))

\* extract: [entities |-> the returned list, running |-> extracted_entities afterwards]
extract(running, message, role, net) ==
    LET entities == MatchedEntities(message, role, net)
    IN [entities |-> entities, running |-> AddDeduplicated(running, entities)]

get_high_value_entities(running) ==
    SelectSeq(running, LAMBDA e : e.confidence \in {"high", "medium"})

\* a count that does not filter on confidence
get_entity_count_all(running) == Len(running)

get_entity_count(running) == Len(get_high_value_entities(running))

(***************************************************************************)
(* config.py                                                               *)
(***************************************************************************)
DefaultMaxMessages == 15

DefaultMaxDurationMinutes == 30

DefaultMinEntitiesForStop == 3

DefaultMaxRepetitions == 3

\* the classifier's threshold and weights, in hundredths
DefaultConfidenceThreshold == 85

DefaultKeywordWeight == 30

DefaultPatternWeight == 30

DefaultLlmWeight == 40

DefaultConfig ==
    [max_messages |-> DefaultMaxMessages,
     max_duration_minutes |-> DefaultMaxDurationMinutes,
     min_entities_for_stop |-> DefaultMinEntitiesForStop,
     max_repetitions |-> DefaultMaxRepetitions,
     enable_fallback |-> TRUE,
     enable_consistency_check |-> TRUE,
     enable_normalization |-> TRUE,
     enable_url_expansion |-> TRUE,
     confidence_threshold |-> DefaultConfidenceThreshold,
     keyword_weight |-> DefaultKeywordWeight,
     pattern_weight |-> DefaultPatternWeight,
     llm_weight |-> DefaultLlmWeight,
     enable_whitelist |-> TRUE,
     provider |-> "openai",
     api_key_set |-> FALSE]

\* limits low enough for a short conversation to meet each of them
SmallConfig ==
    [DefaultConfig EXCEPT !.max_messages = 9, !.max_duration_minutes = 2,
                          !.min_entities_for_stop = 2, !.max_repetitions = 2]

\* Config.validate with the engagement limits left unchecked
Config_validate_without_limits(c) ==
    IF ~(0 <= c.confidence_threshold /\ c.confidence_threshold <= 100)
    THEN [ok |-> FALSE, error |-> "Confidence threshold must be between 0.0 and 1.0"]
    ELSE IF c.keyword_weight + c.pattern_weight + c.llm_weight - 100 > 1
            \/ 100 - (c.keyword_weight + c.pattern_weight + c.llm_weight) > 1
    THEN [ok |-> FALSE, error |-> "Detection weights must sum to 1.0"]
    ELSE IF c.provider \in {"openai", "gemini"} /\ ~c.api_key_set
    THEN [ok |-> FALSE, error |-> "API key required"]
    ELSE [ok |-> TRUE, error |-> "Configuration valid"]

\* Config.validate; thresholds and weights are in hundredths
Config_validate(c) ==
    IF ~(0 <= c.confidence_threshold /\ c.confidence_threshold <= 100)
    THEN [ok |-> FALSE, error |-> "Confidence threshold must be between 0.0 and 1.0"]
    ELSE IF c.keyword_weight + c.pattern_weight + c.llm_weight - 100 > 1
            \/ 100 - (c.keyword_weight + c.pattern_weight + c.llm_weight) > 1
    THEN [ok |-> FALSE, error |-> "Detection weights must sum to 1.0"]
    ELSE IF c.provider \in {"openai", "gemini"} /\ ~c.api_key_set
    THEN [ok |-> FALSE, error |-> "API key required"]
    ELSE IF c.max_messages < 1
    THEN [ok |-> FALSE, error |-> "max_messages must be at least 1"]
    ELSE [ok |-> TRUE, error |-> "Configuration valid"]

(***************************************************************************)
(* State after the modules are imported                                    *)
(***************************************************************************)
\* ConversationState(): start_time is taken when the instance is constructed
ConversationState(t) ==
    [message_count |-> 0,
     start_time |-> t,
     current_phase |-> "build_trust",
     scammer_repetitions |-> 0,
     last_scammer_message |-> <<>>,
     suspicion_indicators |-> <<>>]

NoReturn == [op |-> "none"]

\* no call of process_message has reached the conversation loop yet
IdleLoop == [result |-> "None"]

\* persona_manager.memory is None
NoMemory == [kind |-> "none"]

\* a ConversationMemory holding these messages
ConversationMemory(messages) == [kind |-> "memory", messages |-> messages]

\* a call that returned None where text was expected
NoResponse == [kind |-> "none"]

\* the modules are imported, no HoneypotSystem has been constructed yet
Imported(c) ==
    /\ cfg = c
    /\ state = ConversationState(0)
    /\ extracted_entities = <<>>
    /\ memory = NoMemory
    /\ current_persona = "None"
    /\ conversation_active = FALSE
    /\ fallback_index = 0
    /\ now = 0
    /\ pc = "imported"
    /\ loop = IdleLoop
    /\ ret = NoReturn
    /\ calls = 0

Constructed(c) ==
    /\ cfg = c
    /\ state = ConversationState(0)
    /\ extracted_entities = <<>>
    /\ memory = NoMemory
    /\ current_persona = "None"
    /\ conversation_active = FALSE
    /\ fallback_index = 0
    /\ now = 0
    /\ pc = "idle"
    /\ loop = IdleLoop
    /\ ret = NoReturn
    /\ calls = 0

(***************************************************************************)
(* strategy_engine.py: StrategyEngine                                      *)
(***************************************************************************)
Phases == {"build_trust", "extract_intel", "delay_probe", "exit"}

SuspicionThreshold == 2

\* minutes since the state was constructed, at clock reading t
elapsed_minutes(st, t) == t - st.start_time

\* the entity check moved in front of the message limit
should_stop_entities_first(st, running, t) ==
    IF get_entity_count(running) >= cfg.min_entities_for_stop
    THEN [stop |-> TRUE, reason |-> "sufficient_entities_extracted"]
    ELSE IF st.message_count >= cfg.max_messages
    THEN [stop |-> TRUE, reason |-> "max_messages_reached"]
    ELSE IF elapsed_minutes(st, t) >= cfg.max_duration_minutes
    THEN [stop |-> TRUE, reason |-> "time_limit_exceeded"]
    ELSE IF Len(st.suspicion_indicators) >= SuspicionThreshold
    THEN [stop |-> TRUE, reason |-> "scammer_shows_suspicion"]
    ELSE IF st.scammer_repetitions >= cfg.max_repetitions
    THEN [stop |-> TRUE, reason |-> "conversation_unproductive"]
    ELSE [stop |-> FALSE, reason |-> "None"]

\* the stop check without its message limit
should_stop_without_limit(st, running, t) ==
    IF elapsed_minutes(st, t) >= cfg.max_duration_minutes
    THEN [stop |-> TRUE, reason |-> "time_limit_exceeded"]
    ELSE IF get_entity_count(running) >= cfg.min_entities_for_stop
    THEN [stop |-> TRUE, reason |-> "sufficient_entities_extracted"]
    ELSE IF Len(st.suspicion_indicators) >= SuspicionThreshold
    THEN [stop |-> TRUE, reason |-> "scammer_shows_suspicion"]
    ELSE IF st.scammer_repetitions >= cfg.max_repetitions
    THEN [stop |-> TRUE, reason |-> "conversation_unproductive"]
    ELSE [stop |-> FALSE, reason |-> "None"]

should_stop(st, running, t) ==
    IF st.message_count >= cfg.max_messages
    THEN [stop |-> TRUE, reason |-> "max_messages_reached"]
    ELSE IF elapsed_minutes(st, t) >= cfg.max_duration_minutes
    THEN [stop |-> TRUE, reason |-> "time_limit_exceeded"]
    ELSE IF get_entity_count(running) >= cfg.min_entities_for_stop
    THEN [stop |-> TRUE, reason |-> "sufficient_entities_extracted"]
    ELSE IF Len(st.suspicion_indicators) >= SuspicionThreshold
    THEN [stop |-> TRUE, reason |-> "scammer_shows_suspicion"]
    ELSE IF st.scammer_repetitions >= cfg.max_repetitions
    THEN [stop |-> TRUE, reason |-> "conversation_unproductive"]
    ELSE [stop |-> FALSE, reason |-> "None"]

\* analyze_scammer_message: [state |-> the state afterwards, analysis |-> the returned dict]
analyze_scammer_message(st, message) ==
    LET is_repetition == Lower(Strip(message.text)) = Lower(Strip(st.last_scammer_message))
    IN [state |->
            [st EXCEPT
                !.suspicion_indicators = st.suspicion_indicators \o message.suspicion,
                !.scammer_repetitions = IF is_repetition THEN st.scammer_repetitions + 1 ELSE 0,
                !.last_scammer_message = IF is_repetition THEN st.last_scammer_message
                                         ELSE message.text],
        analysis |->
            [suspicion_detected |-> message.suspicion # <<>>,
             unproductive_detected |-> message.unproductive # <<>>,
             is_repetition |-> is_repetition]]

BuildTrustMessages == 3

ExtractIntelMessages == 8

ExtractIntelEntities == 2

ExitMargin == 3

\* the delay_probe branch tested before the extract_intel branch
determine_phase_probe_first(st, running) ==
    LET message_count == st.message_count
        entity_count == get_entity_count(running)
    IN IF message_count < BuildTrustMessages THEN "build_trust"
       ELSE IF entity_count >= 1 /\ message_count < cfg.max_messages - ExitMargin
       THEN "delay_probe"
       ELSE IF message_count < ExtractIntelMessages /\ entity_count < ExtractIntelEntities
       THEN "extract_intel"
       ELSE "exit"

\* the extract_intel branch without its message-count bound
determine_phase_unbounded_intel(st, running) ==
    LET message_count == st.message_count
        entity_count == get_entity_count(running)
    IN IF message_count < BuildTrustMessages THEN "build_trust"
       ELSE IF entity_count < ExtractIntelEntities THEN "extract_intel"
       ELSE IF entity_count >= 1 /\ message_count < cfg.max_messages - ExitMargin
       THEN "delay_probe"
       ELSE "exit"

determine_phase(st, running) ==
    LET message_count == st.message_count
        entity_count == get_entity_count(running)
    IN IF message_count < BuildTrustMessages THEN "build_trust"
       ELSE IF message_count < ExtractIntelMessages /\ entity_count < ExtractIntelEntities
       THEN "extract_intel"
       ELSE IF entity_count >= 1 /\ message_count < cfg.max_messages - ExitMargin
       THEN "delay_probe"
       ELSE "exit"

\* get_strategy_guidance: stores the phase it determined
get_strategy_guidance(st, running) ==
    LET phase == determine_phase(st, running)
    IN [state |-> [st EXCEPT !.current_phase = phase], phase |-> phase]

\* a counter advanced by two
increment_message_count_twice(st) == [st EXCEPT !.message_count = st.message_count + 2]

increment_message_count(st) == [st EXCEPT !.message_count = st.message_count + 1]

\* len(text.split())
WordCount(text) ==
    Cardinality({i \in 1..Len(text) :
        text[i] \notin Whitespace /\ (i = 1 \/ text[i - 1] \in Whitespace)})

ShortQuestionWords == 10

\* get_adaptive_prompt_addition: analyses the message (again) and picks the prompt addition
get_adaptive_prompt_addition(st, message) ==
    LET a == analyze_scammer_message(st, message)
    IN [state |-> a.state,
        prompt |-> IF a.analysis.suspicion_detected THEN "suspicion"
                   ELSE IF message.media THEN "media"
                   ELSE IF "?" \in Range(message.text) /\ WordCount(message.text) < ShortQuestionWords
                        THEN "question"
                   ELSE "none"]

(***************************************************************************)
(* llm_interface.py: LLMInterface                                          *)
(***************************************************************************)
FallbackResponses == 5

\* what the provider call of one request comes back with: a reply that passes
\* every check, one that contradicts the persona, one that breaks the
\* guardrails, or an error
ProviderOutcomes == {"ok", "inconsistent", "forbidden", "fail"}

NoContent == [kind |-> "empty"]

OracleText(outcome) == [kind |-> "oracle", quality |-> outcome]

FallbackText(index) == [kind |-> "fallback", index |-> index]

\* _get_fallback_response: [content, fallback_index afterwards]
_get_fallback_response(index) ==
    [content |-> FallbackText(index), fallback_index |-> (index + 1) % FallbackResponses]

\* PromptGuardrails.validate_victim_response; every fallback line passes it
validate_victim_response(content) ==
    ~(content.kind = "oracle" /\ content.quality = "forbidden")

\* generate, lines 255-263: the provider call
provider_call(index, outcome) ==
    [content |-> IF outcome = "fail" THEN NoContent ELSE OracleText(outcome),
     success |-> outcome # "fail", used_fallback |-> FALSE, fallback_index |-> index]

\* generate, lines 266-273: a failed call is replaced by the next fallback line
with_fallback(response) ==
    IF response.success \/ ~cfg.enable_fallback THEN response
    ELSE [content |-> _get_fallback_response(response.fallback_index).content,
          success |-> TRUE, used_fallback |-> TRUE,
          fallback_index |-> _get_fallback_response(response.fallback_index).fallback_index]

\* generate, lines 276-285: the guardrail check on the content
after_validation(response, validate) ==
    IF ~response.success THEN response
    ELSE IF validate /\ ~validate_victim_response(response.content)
    THEN IF cfg.enable_fallback
         THEN [response EXCEPT
                 !.content = _get_fallback_response(response.fallback_index).content,
                 !.used_fallback = TRUE,
                 !.fallback_index = _get_fallback_response(response.fallback_index).fallback_index]
         ELSE [response EXCEPT !.success = FALSE]
    ELSE response

\* generate: [content, success, used_fallback, fallback_index afterwards]
generate(index, outcome, validate) ==
    after_validation(with_fallback(provider_call(index, outcome)), validate)

generate_victim_response(index, outcome) == generate(index, outcome, TRUE)

ScamTypes == {"job_scam", "investment_scam", "banking_fraud", "romance_scam",
              "prize_lottery", "tech_support", "impersonation", "unknown", "not_scam"}

\* replies of the provider to the classification request.  A JSON object: the
\* fields it carries (a missing is_scam reads as FALSE, a missing confidence as
\* 0, a missing scam_type is "absent"), with the reasoning field present
JsonReply(is_scam, confidence, scam_type) ==
    [kind |-> "json", is_scam |-> is_scam, confidence |-> confidence, numeric |-> TRUE,
     scam_type |-> scam_type]

\* a JSON object whose confidence is not a number (a string such as "high")
MistypedReply(is_scam, scam_type) ==
    [kind |-> "json", is_scam |-> is_scam, confidence |-> 0, numeric |-> FALSE,
     scam_type |-> scam_type]

\* valid JSON that is not an object (a list, a number, a string, null)
NonObjectReply == [kind |-> "json_other"]

\* text that json.loads rejects; mentions_scam: its lower-cased text contains "scam"
TextReply(mentions_scam) == [kind |-> "text", mentions_scam |-> mentions_scam]

\* the provider call raised (timeout, transport failure)
FailedReply == [kind |-> "fail"]

FallbackParseConfidence == 50

\* the dictionary built where json.loads fails on the content
unparsed(mentions, origin) ==
    [shape |-> "object", is_scam |-> mentions, confidence |-> FallbackParseConfidence,
     numeric |-> TRUE, scam_type |-> "unknown", reasoning |-> origin]

\* detect_scam: [result |-> the value returned, fallback_index afterwards];
\* confidences are in hundredths.  reasoning names where the reasoning text
\* comes from: the oracle's own field ("oracle"), the raw text of its reply
\* ("raw"), a canned fallback line ("fallback_line") or the fixed text
\* "LLM analysis failed" ("failed").  No fallback line contains "scam".
detect_scam(index, reply) ==
    IF reply.kind = "fail"
    THEN IF cfg.enable_fallback
         THEN [result |-> unparsed(FALSE, "fallback_line"),
               fallback_index |-> _get_fallback_response(index).fallback_index]
         ELSE [result |-> [shape |-> "object", is_scam |-> FALSE, confidence |-> 0,
                           numeric |-> TRUE, scam_type |-> "unknown",
                           reasoning |-> "failed"],
               fallback_index |-> index]
    ELSE IF reply.kind = "json"
    THEN [result |-> [shape |-> "object", is_scam |-> reply.is_scam,
                      confidence |-> reply.confidence, numeric |-> reply.numeric,
                      scam_type |-> reply.scam_type, reasoning |-> "oracle"],
          fallback_index |-> index]
    ELSE IF reply.kind = "json_other"
    THEN [result |-> [shape |-> "other"], fallback_index |-> index]
    ELSE [result |-> unparsed(reply.mentions_scam, "raw"), fallback_index |-> index]

(***************************************************************************)
(* scam_detector.py: scores and weights are in hundredths                  *)
(***************************************************************************)
NoSender == [id |-> "None", whitelisted |-> FALSE]

\* sender identifiers, with the verdict of LEGITIMATE_PATTERNS on them
sender_mobile == [id |-> "+919876543210", whitelisted |-> FALSE]

sender_amazon == [id |-> "offers@amazon.com", whitelisted |-> TRUE]

Senders == {NoSender, sender_mobile, sender_amazon}

\* lines 118-131: the type the keyword counts point to
keyword_scam_type(k) ==
    IF k.prize >= 2 THEN "prize_lottery"
    ELSE IF k.job >= 2 /\ k.money >= 1 THEN "job_scam"
    ELSE IF k.threat >= 2 THEN "banking_fraud"
    ELSE IF k.money >= 3 THEN "investment_scam"
    ELSE "unknown"

\* lines 118-131: the indicator that goes with the type
keyword_type_indicators(k) ==
    IF k.prize >= 2 THEN <<"prize_keywords">>
    ELSE IF k.job >= 2 /\ k.money >= 1 THEN <<"job_keywords">>
    ELSE IF k.threat >= 2 THEN <<"threat_keywords">>
    ELSE IF k.money >= 3 THEN <<"money_keywords">>
    ELSE <<>>

total_keywords(k) == k.urgency + k.money + k.threat + k.request + k.prize + k.job

\* lines 137-149 with the density tiers tested before the override
keyword_score_density_first(k) ==
    IF total_keywords(k) >= 5 THEN 70
    ELSE IF k.urgency >= 2 /\ (k.money >= 2 \/ k.threat >= 2) THEN 80
    ELSE IF total_keywords(k) >= 3 THEN 50
    ELSE IF total_keywords(k) >= 1 THEN 30
    ELSE 0

\* lines 137-149: the score
keyword_score(k) ==
    IF k.urgency >= 2 /\ (k.money >= 2 \/ k.threat >= 2) THEN 80
    ELSE IF total_keywords(k) >= 5 THEN 70
    ELSE IF total_keywords(k) >= 3 THEN 50
    ELSE IF total_keywords(k) >= 1 THEN 30
    ELSE 0

\* lines 137-149: the indicator that goes with the score
keyword_score_indicators(k) ==
    IF k.urgency >= 2 /\ (k.money >= 2 \/ k.threat >= 2)
    THEN <<"urgency_with_money_or_threat">>
    ELSE IF total_keywords(k) >= 5 THEN <<"high_keyword_density">>
    ELSE IF total_keywords(k) >= 3 THEN <<"moderate_keyword_density">>
    ELSE <<>>

KeywordDetector_detect(message, sender) ==
    IF sender # NoSender /\ cfg.enable_whitelist /\ sender.whitelisted
    THEN [score |-> 0, scam_type |-> "not_scam", indicators |-> <<"whitelisted_sender">>]
    ELSE [score |-> Min(keyword_score(message.kw), 100),
          scam_type |-> keyword_scam_type(message.kw),
          indicators |-> keyword_type_indicators(message.kw)
                         \o keyword_score_indicators(message.kw)]

upi_email_suffixes ==
    {<<".", "c", "o", "m">>, <<".", "o", "r", "g">>, <<".", "n", "e", "t">>, <<".", "i", "n">>}

SUSPICIOUS_DOMAINS ==
    {<<"b", "i", "t", ".", "l", "y">>, <<"t", "i", "n", "y", "u", "r", "l", ".", "c", "o", "m">>,
     <<"g", "o", "o", ".", "g", "l">>, <<"t", ".", "c", "o">>,
     <<".", "t", "k">>, <<".", "m", "l">>, <<".", "g", "a">>, <<".", "c", "f">>}

\* PatternDetector.detect; indicators: whether any was appended
PatternDetector_detect(message) ==
    LET f == message.found
        upi_matches == SelectSeq(f.upi, LAMBDA u : \A s \in upi_email_suffixes : ~EndsWith(u, s))
        suspicious_url ==
            \E i \in 1..Len(f.url) : \E d \in SUSPICIOUS_DOMAINS : Contains(Lower(f.url[i]), d)
        score == (IF f.phone > 0 THEN 20 ELSE 0)
                 + (IF f.bank > 0 THEN 30 ELSE 0)
                 + (IF upi_matches # <<>> THEN 30 ELSE 0)
                 + (IF f.url # <<>> THEN 10 ELSE 0)
                 + (IF suspicious_url THEN 30 ELSE 0)
                 + (IF f.payment >= 2 THEN 20 ELSE 0)
                 + (IF f.obfuscated THEN 20 ELSE 0)
    IN [score |-> Min(score, 100), indicators |-> score > 0]

\* the mean of the three scores, the weights left out of the divisor
calculate_weighted_score_plain_mean(scores, weights) ==
    [sum |-> scores.keyword * weights.keyword + scores.pattern * weights.pattern
             + scores.llm * weights.llm,
     weight |-> 300]

\* calculate_weighted_score as the fraction sum / weight (0/1 when the weights
\* do not sum to a positive number)
calculate_weighted_score(scores, weights) ==
    IF weights.keyword + weights.pattern + weights.llm > 0
    THEN [sum |-> scores.keyword * weights.keyword + scores.pattern * weights.pattern
                  + scores.llm * weights.llm,
          weight |-> weights.keyword + weights.pattern + weights.llm]
    ELSE [sum |-> 0, weight |-> 1]

\* lines 262-267
configured_weights ==
    [keyword |-> cfg.keyword_weight, pattern |-> cfg.pattern_weight, llm |-> cfg.llm_weight]

\* line 260
llm_score(llm_result) == IF llm_result.is_scam THEN llm_result.confidence ELSE 0

\* line 278, on the fraction
meets_threshold(final_confidence) ==
    final_confidence.sum >= cfg.confidence_threshold * final_confidence.weight

\* lines 280-289
final_scam_type(keyword_type, llm_result, is_scam) ==
    IF keyword_type # "unknown" THEN keyword_type
    ELSE IF llm_result.scam_type \notin {"absent", ""}
         THEN IF llm_result.scam_type \in ScamTypes THEN llm_result.scam_type
              ELSE "unknown"
    ELSE IF is_scam THEN "unknown" ELSE "not_scam"

\* lines 262-312 on the three layers' results
fuse(keyword_result, pattern_result, llm_result, scores) ==
    [is_scam |-> meets_threshold(calculate_weighted_score(scores, configured_weights)),
     confidence |-> calculate_weighted_score(scores, configured_weights),
     scam_type |-> final_scam_type(
                       keyword_result.scam_type, llm_result,
                       meets_threshold(calculate_weighted_score(scores, configured_weights))),
     reasoning |-> [keywords |-> keyword_result.indicators # <<>>,
                    patterns |-> pattern_result.indicators,
                    llm |-> llm_result.reasoning],
     layer_scores |-> scores]

\* lines 250-312 on the value detect_scam returned.  A value that is not a
\* dictionary has no get (AttributeError, line 260); a confidence that is not
\* a number cannot be multiplied by a weight (TypeError, utils.py line 192).
classify(keyword_result, pattern_result, llm) ==
    IF llm.result.shape = "other" \/ (llm.result.is_scam /\ ~llm.result.numeric)
    THEN [raised |-> TRUE, fallback_index |-> llm.fallback_index]
    ELSE [raised |-> FALSE,
          result |-> fuse(keyword_result, pattern_result, llm.result,
                          [keyword |-> keyword_result.score,
                           pattern |-> pattern_result.score,
                           llm |-> llm_score(llm.result)]),
          fallback_index |-> llm.fallback_index]

\* ScamDetector.detect: [raised, result |-> ScamDetectionResult, fallback_index
\* afterwards]
ScamDetector_detect(message, sender, reply, index) ==
    classify(KeywordDetector_detect(message, sender), PatternDetector_detect(message),
             detect_scam(index, reply))

(***************************************************************************)
(* persona_manager.py: PersonaManager                                      *)
(***************************************************************************)
select_persona(scam_type) ==
    IF scam_type = "job_scam" THEN "job_seeker"
    ELSE IF scam_type = "investment_scam" THEN "investor"
    ELSE IF scam_type \in {"prize_lottery", "romance_scam"} THEN "elderly"
    ELSE "tech_novice"

\* add_message: dropped while no conversation memory exists
add_message(mem, role, content) ==
    IF mem = NoMemory THEN mem
    ELSE ConversationMemory(Append(mem.messages, [role |-> role, content |-> content]))

\* check_consistency on the five fallback lines, for every persona profile
FallbackConsistent == <<FALSE, TRUE, FALSE, TRUE, FALSE>>

validate_response(persona, mem, content) ==
    IF persona = "None" \/ mem = NoMemory THEN TRUE
    ELSE IF ~cfg.enable_consistency_check THEN TRUE
    ELSE IF content.kind = "oracle" THEN content.quality # "inconsistent"
    ELSE IF content.kind = "fallback" THEN FallbackConsistent[content.index + 1]
    ELSE TRUE

(***************************************************************************)
(* conversation_agent.py: ConversationAgent                                *)
(***************************************************************************)
ExitText == [kind |-> "exit"]

CannedText == [kind |-> "canned"]

\* generate_response, lines 34-43, on the results of extraction and analysis: the
\* stop check and the strategy calls that precede the provider call
inbound_of(extracted, analysed, message) ==
    [entities |-> extracted.entities, running |-> extracted.running,
     analysed |-> analysed,
     stop |-> should_stop(analysed, extracted.running, now),
     phase |-> get_strategy_guidance(analysed, extracted.running).phase,
     adapted |-> get_adaptive_prompt_addition(
                     get_strategy_guidance(analysed, extracted.running).state,
                     message).state]

\* the stop check made on the state as it was before the inbound message was read
read_inbound_stop_first(message, net) ==
    [inbound_of(extract(extracted_entities, message, "scammer", net),
                analyze_scammer_message(state, message).state, message)
        EXCEPT !.stop = should_stop(state, extracted_entities, now)]

\* the first turn of a session made on a strategy state and a running set of the
\* session's own
read_inbound_own_session(message, net) ==
    IF pc = "started"
    THEN inbound_of(extract(<<>>, message, "scammer", net),
                    analyze_scammer_message(ConversationState(now), message).state, message)
    ELSE inbound_of(extract(extracted_entities, message, "scammer", net),
                    analyze_scammer_message(state, message).state, message)

\* generate_response, lines 25-43: extraction, analysis, the stop check and the
\* strategy calls that precede the provider call, for one inbound message
read_inbound(message, net) ==
    inbound_of(extract(extracted_entities, message, "scammer", net),
               analyze_scammer_message(state, message).state, message)

\* generate_response, lines 35-37: the exit message is returned
stopped(inbound, mem) ==
    [state |-> inbound.analysed, running |-> inbound.running, memory |-> mem,
     fallback_index |-> fallback_index, response |-> ExitText,
     entities |-> inbound.entities, stop |-> inbound.stop, phase |-> "None",
     oracle_calls |-> 0]

\* generate_response, lines 56-58: the provider call failed, None is returned
generation_failed(inbound, mem, response_obj) ==
    [state |-> inbound.adapted, running |-> inbound.running, memory |-> mem,
     fallback_index |-> response_obj.fallback_index, response |-> NoResponse,
     entities |-> inbound.entities, stop |-> inbound.stop,
     phase |-> inbound.phase, oracle_calls |-> 1]

\* generate_response, lines 75-87: both messages are stored, the counter moves
completed(inbound, mem, message, response, index, oracle_calls) ==
    [state |-> increment_message_count(inbound.adapted),
     running |-> inbound.running,
     memory |-> add_message(add_message(mem, "scammer", message.text),
                            "victim", response),
     fallback_index |-> index,
     response |-> response,
     entities |-> inbound.entities, stop |-> inbound.stop,
     phase |-> inbound.phase,
     oracle_calls |-> oracle_calls]

\* generate_response, lines 66-73: the second provider call
retried(inbound, mem, message, second) ==
    completed(inbound, mem, message,
              IF second.success THEN second.content ELSE CannedText,
              second.fallback_index, 2)

\* generate_response, lines 56-87, on the result of the first provider call
respond(inbound, mem, message, response_obj, retry) ==
    IF ~response_obj.success THEN generation_failed(inbound, mem, response_obj)
    ELSE IF validate_response(current_persona, mem, response_obj.content)
    THEN completed(inbound, mem, message, response_obj.content,
                   response_obj.fallback_index, 1)
    ELSE retried(inbound, mem, message,
                 generate_victim_response(response_obj.fallback_index, retry))

\* generate_response for one inbound message; first and retry are the outcomes of
\* the provider calls it may make.  The record holds the state of every
\* collaborator afterwards, the value returned (response, NoResponse when
\* generation failed) and what the turn did.
generate_response(inbound, mem, message, first, retry) ==
    IF inbound.stop.stop THEN stopped(inbound, mem)
    ELSE respond(inbound, mem, message,
                 generate_victim_response(fallback_index, first), retry)

\* what a call of generate_response leaves in ret
Turn(message, g) ==
    [op |-> "generate_response", message |-> message, response |-> g.response,
     entities |-> g.entities, stop |-> g.stop, phase |-> g.phase,
     oracle_calls |-> g.oracle_calls]

(***************************************************************************)
(* main.py: HoneypotSystem.process_message and _conversation_loop          *)
(***************************************************************************)
MaxTurns == 3

MaxMinutes == 1

SystemMessages == {msg_hello, msg_real, msg_pay, msg_upi}

SystemSenders == {NoSender, sender_amazon}

\* none of SystemMessages carries a URL, so no expansion request is ever made
SystemNetOutcomes == {"same"}

\* the second provider call either answers or fails
RetryOutcomes == {"ok", "fail"}

ClassifierReplies ==
    {JsonReply(TRUE, 100, "prize_lottery"), JsonReply(FALSE, 0, "absent"), NonObjectReply}

SystemConfigs ==
    {[SmallConfig EXCEPT !.max_messages = 2, !.max_duration_minutes = 1, !.enable_fallback = f,
                         !.confidence_threshold = 30, !.api_key_set = TRUE] :
        f \in BOOLEAN}

\* settings that Config.validate rejects, one for each of its checks
InvalidConfigs ==
    {[SmallConfig EXCEPT !.api_key_set = TRUE, !.confidence_threshold = 150],
     [SmallConfig EXCEPT !.api_key_set = TRUE, !.keyword_weight = 50, !.pattern_weight = 50,
                         !.llm_weight = 50],
     [SmallConfig EXCEPT !.api_key_set = TRUE, !.max_messages = 0,
                         !.confidence_threshold = 30],
     [SmallConfig EXCEPT !.confidence_threshold = 30]}

Init == \E c \in SystemConfigs \cup InvalidConfigs : Imported(c)

\* HoneypotSystem(): _validate_config raises ValueError on an invalid
\* configuration, and no HoneypotSystem object exists then
Construct ==
    /\ pc = "imported"
    /\ pc' = IF Config_validate(cfg).ok THEN "idle" ELSE "failed"
    /\ ret' = [op |-> "construct", error |-> Config_validate(cfg).error]
    /\ UNCHANGED <<cfg, state, extracted_entities, memory, current_persona,
                   conversation_active, fallback_index, now, loop, calls>>

\* _conversation_loop has returned: the result dictionary of process_message
Finished(l, reason, response) ==
    [result |-> [honeypot_activated |-> TRUE, stop_reason |-> reason,
                 messages_exchanged |-> l.messages_exchanged,
                 last_victim_response |-> response]]

\* the honeypot activated whatever the classification says
activates_always(result) == TRUE

\* process_message, line 64: only a message classified as scam goes on
activates(result) == result.is_scam

\* what a call of detector.detect that returned leaves in ret
Detected(result) ==
    [op |-> "detect", raised |-> FALSE, is_scam |-> result.is_scam,
     scam_type |-> result.scam_type]

\* process_message up to the start of the conversation loop: classify, and when
\* the message is a scam activate the honeypot (agent.start_conversation)
ProcessMessage(message, sender, has_callback, reply) ==
    /\ pc = "idle"
    /\ calls < MaxTurns
    /\ \E d \in {ScamDetector_detect(message, sender, reply, fallback_index)} :
          /\ fallback_index' = d.fallback_index
          /\ IF d.raised
             THEN /\ loop' = [raised |-> TRUE]
                  /\ ret' = [op |-> "detect", raised |-> TRUE]
                  /\ UNCHANGED <<current_persona, memory, conversation_active, pc>>
             ELSE IF ~activates(d.result)
             THEN /\ loop' = [result |-> [honeypot_activated |-> FALSE]]
                  /\ ret' = Detected(d.result)
                  /\ UNCHANGED <<current_persona, memory, conversation_active, pc>>
             ELSE /\ current_persona' = select_persona(d.result.scam_type)
                  /\ memory' = ConversationMemory(<<>>)
                  /\ conversation_active' = TRUE
                  /\ pc' = "started"
                  /\ loop' = [initial_message |-> message, has_callback |-> has_callback,
                              messages_exchanged |-> 0, victim_response |-> NoResponse,
                              stop_reason |-> "max_messages_reached"]
                  /\ ret' = Detected(d.result)
    /\ UNCHANGED <<cfg, state, extracted_entities, now, calls>>

\* _conversation_loop, lines 126-144 and 160-165 on the turn just made: demo
\* mode ends the session, otherwise the loop goes on while the limit allows
AfterFirst(l, response) ==
    IF ~l.has_callback
    THEN pc' = "idle" /\ loop' = Finished(l, "demo_mode", response)
    ELSE IF l.messages_exchanged < cfg.max_messages
    THEN pc' = "loop" /\ loop' = l
    ELSE pc' = "idle" /\ loop' = Finished(l, l.stop_reason, response)

\* _conversation_loop, lines 156-165 on the turn just made
AfterTurn(l, response) ==
    IF response = NoResponse
    THEN pc' = "idle" /\ loop' = Finished(l, "agent_disengaged", response)
    ELSE IF l.messages_exchanged < cfg.max_messages
    THEN pc' = "loop" /\ loop' = l
    ELSE pc' = "idle" /\ loop' = Finished(l, l.stop_reason, response)

\* the collaborators' state and the returned value after generate_response
Responded(message, g) ==
    /\ state' = g.state
    /\ extracted_entities' = g.running
    /\ memory' = g.memory
    /\ fallback_index' = g.fallback_index
    /\ ret' = Turn(message, g)

\* _conversation_loop, lines 126-144: the response to the initial message
FirstResponse(net) ==
    /\ pc = "started"
    /\ \E inbound \in {read_inbound(loop.initial_message, net)} :
       \E first \in ProviderOutcomes, retry \in RetryOutcomes :
       \E g \in {generate_response(inbound, memory, loop.initial_message, first, retry)} :
           /\ Responded(loop.initial_message, g)
           /\ AfterFirst([loop EXCEPT !.messages_exchanged = 1,
                                      !.victim_response = g.response], g.response)
    /\ calls' = calls + 1
    /\ UNCHANGED <<cfg, current_persona, conversation_active, now>>

\* one pass of the while loop whose callback returns a message
LoopTurn(message, net) ==
    /\ pc = "loop"
    /\ calls < MaxTurns
    /\ \E inbound \in {read_inbound(message, net)} :
       \E first \in ProviderOutcomes, retry \in RetryOutcomes :
       \E g \in {generate_response(inbound, add_message(memory, "scammer", message.text),
                                   message, first, retry)} :
           /\ Responded(message, g)
           /\ AfterTurn([loop EXCEPT !.messages_exchanged = loop.messages_exchanged + 1,
                                     !.victim_response = g.response], g.response)
    /\ calls' = calls + 1
    /\ UNCHANGED <<cfg, current_persona, conversation_active, now>>

\* one pass of the while loop whose callback returns None
CallbackEnds ==
    /\ pc = "loop"
    /\ pc' = "idle"
    /\ loop' = Finished(loop, "scammer_disengaged", loop.victim_response)
    /\ UNCHANGED <<cfg, state, extracted_entities, memory, current_persona,
                   conversation_active, fallback_index, now, ret, calls>>

\* a minute passes
Tick ==
    /\ now < MaxMinutes
    /\ now' = now + 1
    /\ UNCHANGED <<cfg, state, extracted_entities, memory, current_persona,
                   conversation_active, fallback_index, pc, loop, ret, calls>>

Next ==
    \/ \E message \in SystemMessages, sender \in SystemSenders, has_callback \in BOOLEAN,
          reply \in ClassifierReplies :
           ProcessMessage(message, sender, has_callback, reply)
    \/ \E net \in SystemNetOutcomes : FirstResponse(net)
    \/ \E message \in SystemMessages, net \in SystemNetOutcomes : LoopTurn(message, net)
    \/ CallbackEnds
    \/ Tick
    \/ Construct

Spec == Init /\ [][Next]_vars

(***************************************************************************)
(* The classifier on its own: detector.detect and its layers               *)
(***************************************************************************)
MaxHits == 2

\* keyword hits of a message, per family
KeywordProfiles ==
    [{"urgency", "money", "threat", "request", "prize", "job"} -> 0..MaxHits]

\* a message known only by its keyword hits; it holds nothing the pattern
\* layer finds
Counted(k) ==
    [kw |-> k,
     found |-> [phone |-> 0, bank |-> 0, upi |-> <<>>, url |-> <<>>, payment |-> 0,
                obfuscated |-> FALSE]]

LayerScores == {0, 30, 50, 80, 100}

DetectMessages == {msg_hello, msg_pay, msg_upi, msg_url, msg_prize, msg_urgent}

\* weights that sum to 1.0, the shipped ones among them, and two thresholds
DetectConfigs ==
    {[DefaultConfig EXCEPT !.api_key_set = TRUE,
                           !.keyword_weight = w[1], !.pattern_weight = w[2],
                           !.llm_weight = w[3], !.confidence_threshold = t,
                           !.enable_whitelist = wl, !.enable_fallback = f] :
        w \in {<<DefaultKeywordWeight, DefaultPatternWeight, DefaultLlmWeight>>,
                <<100, 0, 0>>, <<20, 20, 60>>},
        t \in {DefaultConfidenceThreshold, 40}, wl \in BOOLEAN, f \in BOOLEAN}

\* replies of the oracle: well-formed ones, confidences outside [0,1], types
\* outside the enum, mistyped fields, JSON that is no object, plain text, errors
DetectReplies ==
    {JsonReply(TRUE, 100, "absent"), JsonReply(TRUE, 90, "romance_scam"),
     JsonReply(TRUE, 60, "phishing"), JsonReply(FALSE, 90, "phishing"),
     JsonReply(FALSE, 0, "absent"), JsonReply(TRUE, 150, "absent"),
     JsonReply(TRUE, 300, "absent"), JsonReply(TRUE, 100, "not_scam"),
     MistypedReply(TRUE, "absent"), MistypedReply(FALSE, "absent"),
     NonObjectReply, TextReply(TRUE), TextReply(FALSE), FailedReply}

InitDetect ==
    \E c \in DetectConfigs :
        /\ cfg = c
        /\ state = ConversationState(0)
        /\ extracted_entities = <<>>
        /\ memory = NoMemory
        /\ current_persona = "None"
        /\ conversation_active = FALSE
        /\ fallback_index \in {0, FallbackResponses - 1}
        /\ now = 0
        /\ pc = "idle"
        /\ loop = IdleLoop
        /\ ret = NoReturn
        /\ calls = 0

\* detector.detect(message, sender), the oracle answering with reply
Detect(message, sender, reply) ==
    /\ \E d \in {ScamDetector_detect(message, sender, reply, fallback_index)} :
          /\ fallback_index' = d.fallback_index
          /\ ret' = [op |-> "detect", message |-> message, sender |-> sender,
                      reply |-> reply, index |-> fallback_index, outcome |-> d]
    /\ UNCHANGED <<cfg, state, extracted_entities, memory, current_persona,
                   conversation_active, now, pc, loop, calls>>

\* KeywordDetector.detect on a message with the keyword hits k
KeywordDetect(k, sender) ==
    /\ ret' = [op |-> "keyword", kw |-> k, sender |-> sender,
                result |-> KeywordDetector_detect(Counted(k), sender)]
    /\ UNCHANGED <<cfg, state, extracted_entities, memory, current_persona,
                   conversation_active, fallback_index, now, pc, loop, calls>>

\* calculate_weighted_score on three layer scores, with the configured weights
WeightedScore(scores) ==
    /\ ret' = [op |-> "weighted", scores |-> scores,
                result |-> calculate_weighted_score(scores, configured_weights)]
    /\ UNCHANGED <<cfg, state, extracted_entities, memory, current_persona,
                   conversation_active, fallback_index, now, pc, loop, calls>>

\* each function is applied once, to the inputs drawn
NextDetect ==
    /\ ret = NoReturn
    /\ \/ \E message \in DetectMessages, sender \in Senders, reply \in DetectReplies :
              Detect(message, sender, reply)
       \/ \E k \in KeywordProfiles, sender \in Senders : KeywordDetect(k, sender)
       \/ \E k \in LayerScores, p \in LayerScores, l \in LayerScores :
              WeightedScore([keyword |-> k, pattern |-> p, llm |-> l])

SpecDetect == InitDetect /\ [][NextDetect]_vars

(***************************************************************************)
(* The extractor on its own: extract called with any message and role      *)
(***************************************************************************)
MaxExtractCalls == 2

ExtractConfigs ==
    {[DefaultConfig EXCEPT !.enable_normalization = n, !.enable_url_expansion = x] :
        n \in BOOLEAN, x \in BOOLEAN}

InitExtract == \E c \in ExtractConfigs : Constructed(c)

Extract(message, role, net) ==
    /\ calls < MaxExtractCalls
    /\ LET r == extract(extracted_entities, message, role, net)
       IN /\ extracted_entities' = r.running
          /\ ret' = [op |-> "extract", message |-> message, role |-> role,
                     entities |-> r.entities]
    /\ calls' = calls + 1
    /\ UNCHANGED <<cfg, state, memory, current_persona, conversation_active,
                   fallback_index, now, pc, loop>>

NextExtract == \E message \in Messages, role \in Roles, net \in NetOutcomes :
                   Extract(message, role, net)

SpecExtract == InitExtract /\ [][NextExtract]_vars

(***************************************************************************)
(* The strategy engine on its own: its decision functions applied to       *)
(* session states drawn from bounded sets                                  *)
(***************************************************************************)
MaxCount == 9

MaxClock == 3

MaxReps == 3

StrategyConfigs == {DefaultConfig, SmallConfig}

\* running entity sets, as extract builds them from a conversation
RECURSIVE ExtractAll(_, _)
ExtractAll(running, said) ==
    IF said = <<>> THEN running
    ELSE ExtractAll(extract(running, Head(said).message, Head(said).role, "fail").running,
                    Tail(said))

Said(message, role) == [message |-> message, role |-> role]

Conversations ==
    {<<>>,
     <<Said(msg_pay, "scammer")>>,
     <<Said(msg_fake, "scammer"), Said(msg_pay, "scammer")>>,
     <<Said(msg_pay, "scammer"), Said(msg_upi, "scammer")>>,
     <<Said(msg_pay, "scammer"), Said(msg_upi, "scammer"), Said(msg_phone, "scammer")>>,
     <<Said(msg_upi, "victim"), Said(msg_pay, "scammer")>>,
     <<Said(msg_pay, "victim"), Said(msg_upi, "victim"), Said(msg_fake, "scammer")>>}

SuspicionLists == {<<>>, <<2>>, <<1, 4>>, <<2, 1, 4>>}

InitStrategy ==
    \E c \in StrategyConfigs :
        /\ cfg = c
        /\ \E conv \in Conversations : extracted_entities = ExtractAll(<<>>, conv)
        /\ \E mc \in 0..MaxCount, reps \in 0..MaxReps, susp \in SuspicionLists :
               state = [ConversationState(0) EXCEPT
                           !.message_count = mc,
                           !.scammer_repetitions = reps,
                           !.suspicion_indicators = susp]
        /\ now \in 0..MaxClock
        /\ memory = NoMemory
        /\ current_persona = "None"
        /\ conversation_active = FALSE
        /\ fallback_index = 0
        /\ pc = "idle"
        /\ loop = IdleLoop
        /\ ret = NoReturn
        /\ calls = 0

ShouldStop ==
    /\ ret' = [op |-> "should_stop", result |-> should_stop(state, extracted_entities, now)]
    /\ UNCHANGED <<cfg, state, extracted_entities, memory, current_persona,
                   conversation_active, fallback_index, now, pc, loop, calls>>

DeterminePhase ==
    /\ ret' = [op |-> "determine_phase", phase |-> determine_phase(state, extracted_entities)]
    /\ UNCHANGED <<cfg, state, extracted_entities, memory, current_persona,
                   conversation_active, fallback_index, now, pc, loop, calls>>

GetStrategyGuidance ==
    /\ LET g == get_strategy_guidance(state, extracted_entities)
       IN /\ state' = g.state
          /\ ret' = [op |-> "get_strategy_guidance", phase |-> g.phase]
    /\ UNCHANGED <<cfg, extracted_entities, memory, current_persona,
                   conversation_active, fallback_index, now, pc, loop, calls>>

NextStrategy == ShouldStop \/ DeterminePhase \/ GetStrategyGuidance

SpecStrategy == InitStrategy /\ [][NextStrategy]_vars

(***************************************************************************)
(* Properties of the strategy engine's decision functions (SpecStrategy)   *)
(***************************************************************************)
\* number of entries of the running set whose confidence is high or medium
HighMediumCount(running) ==
    Cardinality({i \in 1..Len(running) : running[i].confidence \in {"high", "medium"}})

\* the five stop conditions on the current state, in the order of the specification
StopConditions ==
    <<state.message_count >= cfg.max_messages,
      now - state.start_time >= cfg.max_duration_minutes,
      HighMediumCount(extracted_entities) >= cfg.min_entities_for_stop,
      Len(state.suspicion_indicators) >= 2,
      state.scammer_repetitions >= cfg.max_repetitions>>

StopReasons ==
    <<"max_messages_reached", "time_limit_exceeded", "sufficient_entities_extracted",
      "scammer_shows_suspicion", "conversation_unproductive">>

\* C1: should_stop returns the reason of the first stop condition that holds, in the
\* order maxMessages, timeLimit, entitiesSufficient, scammerSuspicious, unproductive,
\* and (False, None) exactly when none of the five holds.
C1_StopPriority ==
    ret.op = "should_stop" =>
        LET holding == {i \in 1..5 : StopConditions[i]}
        IN IF holding = {}
           THEN ret.result = [stop |-> FALSE, reason |-> "None"]
           ELSE /\ ret.result.stop
                /\ ret.result.reason = StopReasons[CHOOSE i \in holding : \A j \in holding : i <= j]

\* maxMessages and entitiesSufficient hold together and should_stop has answered
C1_Witness ==
    /\ ret.op = "should_stop"
    /\ StopConditions[1] /\ StopConditions[3]
    /\ ret.result.reason = "max_messages_reached"

\* the phase function as the specification states it
PhaseReference(messageCount, entityCount, maxMessages) ==
    IF messageCount < 3 THEN "build_trust"
    ELSE IF messageCount < 8 /\ entityCount < 2 THEN "extract_intel"
    ELSE IF entityCount >= 1 /\ messageCount < maxMessages - 3 THEN "delay_probe"
    ELSE "exit"

\* C2: determine_phase equals the reference function of (messageCount,
\* highValueEntityCount, max_messages) with the branch order buildTrust, extractIntel,
\* delayProbe, exit, and calling it changes no state.
C2_PhaseFunction ==
    /\ [](ret.op = "determine_phase" =>
            ret.phase = PhaseReference(state.message_count,
                                       HighMediumCount(extracted_entities),
                                       cfg.max_messages))
    /\ [][ret'.op = "determine_phase" /\ ret' # ret =>
            state' = state /\ extracted_entities' = extracted_entities]_vars

\* determine_phase has answered delay_probe: the third branch was reached
C2_Witness ==
    /\ ret.op = "determine_phase"
    /\ ret.phase = "delay_probe"
    /\ state.message_count >= 3

\* C3 as claimed: with max_messages = 15, messageCount = 2 gives buildTrust and
\* messageCount = 5 with one high-value entity gives delayProbe.
C3_AsClaimed ==
    ret.op = "determine_phase" /\ cfg.max_messages = 15 =>
        /\ state.message_count = 2 => ret.phase = "build_trust"
        /\ state.message_count = 5 /\ HighMediumCount(extracted_entities) = 1 =>
               ret.phase = "delay_probe"

\* C3 (amended): with max_messages = 15, messageCount = 2 gives buildTrust, and
\* messageCount = 5 with one high-value entity gives extractIntel: the extractIntel
\* branch (messageCount < 8 and fewer than 2 entities) is tested before delayProbe,
\* which at messageCount = 5 needs at least two high-value entities.
C3_PhaseExamples ==
    ret.op = "determine_phase" /\ cfg.max_messages = 15 =>
        /\ state.message_count = 2 => ret.phase = "build_trust"
        /\ state.message_count = 5 /\ HighMediumCount(extracted_entities) = 1 =>
               ret.phase = "extract_intel"
        /\ state.message_count = 5 /\ HighMediumCount(extracted_entities) >= 2 =>
               ret.phase = "delay_probe"

\* determine_phase has answered for five messages and one high-value entity
C3_Witness ==
    /\ ret.op = "determine_phase"
    /\ cfg.max_messages = 15
    /\ state.message_count = 5
    /\ HighMediumCount(extracted_entities) = 1
    /\ ret.phase = "extract_intel"

\* the running set without its low and needs_verification entries
WithoutLowTrust(running) ==
    SelectSeq(running, LAMBDA e : e.confidence \notin {"low", "needs_verification"})

\* C9: the count that should_stop and determine_phase consume is the number of
\* entries with confidence high or medium; low and needs_verification entries do
\* not change the outcome of either.
C9_HighValueCount ==
    /\ ret.op = "should_stop" =>
          /\ ret.result = should_stop(state, WithoutLowTrust(extracted_entities), now)
          /\ ret.result.reason = "sufficient_entities_extracted" =>
                HighMediumCount(extracted_entities) >= cfg.min_entities_for_stop
          /\ ~ret.result.stop =>
                HighMediumCount(extracted_entities) < cfg.min_entities_for_stop
    /\ ret.op = "determine_phase" =>
          /\ ret.phase = determine_phase(state, WithoutLowTrust(extracted_entities))
          /\ ret.phase = PhaseReference(state.message_count,
                                        HighMediumCount(extracted_entities),
                                        cfg.max_messages)

\* should_stop has answered "continue" although the running set holds at least
\* min_entities_for_stop entries, all of them low or needs_verification
C9_Witness ==
    /\ ret.op = "should_stop"
    /\ ~ret.result.stop
    /\ Len(extracted_entities) >= cfg.min_entities_for_stop
    /\ HighMediumCount(extracted_entities) = 0
    /\ \E i \in 1..Len(extracted_entities) : extracted_entities[i].confidence = "low"
    /\ \E i \in 1..Len(extracted_entities) :
           extracted_entities[i].confidence = "needs_verification"

(***************************************************************************)
(* Properties of a turn of generate_response (Spec)                        *)
(***************************************************************************)
\* the step is a call of generate_response
IsTurn == calls' = calls + 1 /\ ret'.op = "generate_response"

\* the values generate_response returns after producing a response for the message
GeneratedKinds == {"oracle", "fallback", "canned"}

\* the conversation memory gained no victim entry in the step
NoVictimEntryAdded ==
    /\ Len(memory'.messages) >= Len(memory.messages)
    /\ \A i \in (Len(memory.messages) + 1)..Len(memory'.messages) :
           memory'.messages[i].role = "scammer"

\* C4: message_count starts at 0 and grows by exactly 1 in every turn of
\* generate_response that returns a generated response, stays as it is in a turn that
\* ends on a stop condition (exit message) or on a generation failure (None), and
\* changes in no other step: it never decreases and counts the completed
\* response-generation cycles, not the inbound messages.
C4_MessageCount ==
    /\ state.message_count = 0
    /\ [][/\ state'.message_count >= state.message_count
          /\ IsTurn /\ ret'.response.kind \in GeneratedKinds =>
                 /\ state'.message_count = state.message_count + 1
                 /\ ~NoVictimEntryAdded
          /\ IsTurn /\ ret'.response \in {ExitText, NoResponse} =>
                 state'.message_count = state.message_count
          /\ ~IsTurn => state'.message_count = state.message_count]_vars

\* a turn has just ended on a stop condition after earlier turns produced responses:
\* more messages have come in than message_count records
C4_Witness ==
    /\ ret.op = "generate_response"
    /\ ret.response = ExitText
    /\ state.message_count >= 1
    /\ calls > state.message_count

\* C5: in every turn the stop decision is should_stop evaluated after the extraction
\* and the analysis of the inbound message; when it is true the turn returns the
\* exit message and makes no provider call, computes no phase, leaves message_count
\* as it is and records no victim message in the conversation memory.
C5_StopGates ==
    [][IsTurn =>
          /\ \E net \in SystemNetOutcomes :
                 ret'.stop = should_stop(
                                 analyze_scammer_message(state, ret'.message).state,
                                 extract(extracted_entities, ret'.message, "scammer", net).running,
                                 now)
          /\ ret'.stop.stop =>
                 /\ \E net \in SystemNetOutcomes :
                        extracted_entities' =
                            extract(extracted_entities, ret'.message, "scammer", net).running
                 /\ state' = analyze_scammer_message(state, ret'.message).state
                 /\ ret'.response = ExitText
                 /\ ret'.oracle_calls = 0
                 /\ fallback_index' = fallback_index
                 /\ ret'.phase = "None"
                 /\ state'.current_phase = state.current_phase
                 /\ state'.message_count = state.message_count
                 /\ NoVictimEntryAdded]_vars

\* a turn has just stopped on the entity count that its own message completed
C5_Witness ==
    /\ ret.op = "generate_response"
    /\ ret.stop = [stop |-> TRUE, reason |-> "sufficient_entities_extracted"]
    /\ ret.response = ExitText
    /\ ret.entities # <<>>
    /\ extracted_entities # <<>>
    /\ extracted_entities[Len(extracted_entities)] = ret.entities[Len(ret.entities)]
    /\ HighMediumCount(extracted_entities) = cfg.min_entities_for_stop

\* C6 as claimed: every session that process_message starts after a scam
\* classification begins with message_count 0, no repetitions, no suspicion
\* indicators, an empty running entity set and a start time taken at the moment the
\* session starts.
C6_FreshSession ==
    [][pc = "idle" /\ pc' = "started" =>
          /\ state'.message_count = 0
          /\ state'.scammer_repetitions = 0
          /\ state'.suspicion_indicators = <<>>
          /\ extracted_entities' = <<>>
          /\ state'.start_time = now']_vars

(***************************************************************************)
(* Properties of the extractor (SpecExtract)                               *)
(***************************************************************************)
SameIdentifier(a, b) ==
    a.entity_type = b.entity_type /\ a.normalized_value = b.normalized_value

Known(running, entity) == \E i \in 1..Len(running) : SameIdentifier(running[i], entity)

\* C7: after any sequence of extract calls the running set holds at most one entry
\* per (entity type, normalized value) pair.
C7_OneEntryPerIdentifier ==
    \A i, j \in 1..Len(extracted_entities) :
        SameIdentifier(extracted_entities[i], extracted_entities[j]) => i = j

\* one call returned the same identifier twice and the running set holds it once
C7_Witness ==
    /\ ret.op = "extract"
    /\ \E i, j \in 1..Len(ret.entities) :
           i # j /\ SameIdentifier(ret.entities[i], ret.entities[j])
    /\ \A k \in 1..Len(ret.entities) : Known(extracted_entities, ret.entities[k])
    /\ Len(extracted_entities) < Len(ret.entities)

\* C8: a call of extract keeps every stored entry as it was first seen, adds no
\* entry whose (entity type, normalized value) is already stored, and when every
\* identifier of the message is already stored it leaves the running set and the
\* high-value count unchanged; the call still returns one entity per match.
C8_DuplicatesIdempotent ==
    [][ret'.op = "extract" /\ calls' = calls + 1 =>
          LET old == extracted_entities
              new == extracted_entities'
              returned == ret'.entities
              text == ret'.message.text
              matched == {k \in 1..Len(ret'.message.matches) :
                             LET m == ret'.message.matches[k]
                             IN ~(m.entity_type = "upi_id"
                                  /\ _is_likely_email(SubSeq(text, m.start + 1, m.end)))}
          IN /\ Len(new) >= Len(old)
             /\ SubSeq(new, 1, Len(old)) = old
             /\ \A k \in (Len(old) + 1)..Len(new) : ~Known(old, new[k])
             /\ (\A k \in 1..Len(returned) : Known(old, returned[k])) =>
                    new = old /\ get_entity_count(new) = get_entity_count(old)
             /\ Len(returned) = Cardinality(matched)]_vars

\* the last call returned an identifier that was already stored with another
\* confidence and source message, and the stored entry is still the first one
C8_Witness ==
    /\ ret.op = "extract"
    /\ calls = 2
    /\ Len(extracted_entities) = 1
    /\ \E k \in 1..Len(ret.entities) :
           /\ SameIdentifier(ret.entities[k], extracted_entities[1])
           /\ ret.entities[k].confidence # extracted_entities[1].confidence
           /\ ret.entities[k].source_message # extracted_entities[1].source_message
           /\ extracted_entities[1].source_message # ret.message.text

Layers == {"keyword", "pattern", "llm"}

\* detector.detect was called and returned a result
Classified == ret.op = "detect" /\ ~ret.outcome.raised

InUnit(scores) == \A layer \in Layers : scores[layer] \in 0..100

\* the weighted sum of the scores under the configured weights, in ten-thousandths
WeightedSum(scores) ==
    cfg.keyword_weight * scores.keyword + cfg.pattern_weight * scores.pattern
    + cfg.llm_weight * scores.llm

\* the fraction c is the weighted mean of scores, and lies in [0,1]
IsWeightedMean(c, scores) ==
    /\ c.weight > 0
    /\ c.sum * 100 = WeightedSum(scores) * c.weight
    /\ 0 <= c.sum
    /\ c.sum <= 100 * c.weight

\* C11: with configured weights that sum to 1.0 and the three layer scores in
\* [0,1], the fused confidence lies in [0,1] and equals the weighted mean
\* keyword_weight*keyword + pattern_weight*pattern + llm_weight*llm, for
\* calculate_weighted_score itself and for the confidence detect returns
C11_WeightedMean ==
    cfg.keyword_weight + cfg.pattern_weight + cfg.llm_weight = 100 =>
        /\ ret.op = "weighted" /\ InUnit(ret.scores) =>
               IsWeightedMean(ret.result, ret.scores)
        /\ Classified /\ InUnit(ret.outcome.result.layer_scores) =>
               IsWeightedMean(ret.outcome.result.confidence,
                              ret.outcome.result.layer_scores)

C11_Witness ==
    /\ ret.op = "weighted"
    /\ cfg.keyword_weight = DefaultKeywordWeight /\ cfg.llm_weight = DefaultLlmWeight
    /\ ret.scores = [keyword |-> 80, pattern |-> 50, llm |-> 100]
    /\ ret.result = [sum |-> 7900, weight |-> 100]

\* C12: for every message, sender and oracle reply, replies reporting a
\* confidence outside [0,1] included, the result of detect has its confidence
\* in [0,1] and every layer score in [0,1]
C12_ConfidenceInRange ==
    Classified =>
        /\ 0 <= ret.outcome.result.confidence.sum
        /\ ret.outcome.result.confidence.sum <= 100 * ret.outcome.result.confidence.weight
        /\ InUnit(ret.outcome.result.layer_scores)

\* C13: the semantic layer scores the oracle-reported confidence when the oracle
\* reports is_scam true and 0.0 otherwise; on an oracle error (the call failed,
\* or the payload is not JSON) the layer contributes 0.0, detect still returns
\* a result, and the reasoning says that the analysis failed
C13_SemanticLayer ==
    ret.op = "detect" =>
        /\ ret.reply.kind = "json" /\ ret.reply.numeric =>
               /\ ~ret.outcome.raised
               /\ ret.outcome.result.layer_scores.llm =
                      (IF ret.reply.is_scam THEN ret.reply.confidence ELSE 0)
        /\ ret.reply.kind \in {"fail", "text"} =>
               /\ ~ret.outcome.raised
               /\ ret.outcome.result.layer_scores.llm = 0
               /\ ret.outcome.result.reasoning.llm = "failed"

\* C14: detect never raises, whatever the oracle puts out: text that is not
\* JSON, JSON that is not an object, an object with missing or mistyped
\* fields; output that does not parse gives oracle type unknown, with the raw
\* text of the oracle kept in the reasoning
C14_NeverRaises ==
    ret.op = "detect" =>
        /\ ~ret.outcome.raised
        /\ ret.reply.kind = "text" =>
               /\ detect_scam(ret.index, ret.reply).result.scam_type = "unknown"
               /\ ret.outcome.result.reasoning.llm = "raw"

\* the final type as the aggregation rule words it
ClaimedType(keyword_type, oracle_type, is_scam) ==
    IF keyword_type # "unknown" THEN keyword_type
    ELSE IF oracle_type \in ScamTypes THEN oracle_type
    ELSE IF is_scam THEN "unknown" ELSE "not_scam"

\* C15: the final scam type is the keyword layer's type unless that is unknown;
\* else the oracle-reported type when it is a member of the ScamType enum; else
\* unknown when is_scam is true and not_scam when it is false
C15_FinalType ==
    Classified =>
        ret.outcome.result.scam_type =
            ClaimedType(KeywordDetector_detect(ret.message, ret.sender).scam_type,
                        detect_scam(ret.index, ret.reply).result.scam_type,
                        ret.outcome.result.is_scam)

\* C16: with the whitelist enabled and a sender that matches a whitelist
\* pattern, the classification has score 0.0 and type not_scam for every
\* message and every oracle reply: the lexical layer scores 0.0, the result's
\* confidence is 0.0 and is_scam is false
C16_Whitelisted ==
    Classified /\ cfg.enable_whitelist /\ ret.sender.whitelisted =>
        /\ ret.outcome.result.layer_scores.keyword = 0
        /\ ret.outcome.result.scam_type = "not_scam"
        /\ ret.outcome.result.confidence.sum = 0
        /\ ~ret.outcome.result.is_scam

Hits(k) == k.urgency + k.money + k.threat + k.request + k.prize + k.job

Override(k) == k.urgency >= 2 /\ (k.money >= 2 \/ k.threat >= 2)

\* C17: for all keyword hit counts of a message whose sender is not
\* whitelisted, the lexical score is 0.8 whenever urgency >= 2 and (money >= 2
\* or threat >= 2), whatever the density; otherwise 0.7 from 5 hits, 0.5 from
\* 3, 0.3 from 1 and 0.0 without hits
C17_LexicalScore ==
    ret.op = "keyword" /\ ~(cfg.enable_whitelist /\ ret.sender.whitelisted) =>
        /\ Override(ret.kw) => ret.result.score = 80
        /\ ~Override(ret.kw) /\ Hits(ret.kw) >= 5 => ret.result.score = 70
        /\ ~Override(ret.kw) /\ Hits(ret.kw) \in 3..4 => ret.result.score = 50
        /\ ~Override(ret.kw) /\ Hits(ret.kw) \in 1..2 => ret.result.score = 30
        /\ Hits(ret.kw) = 0 => ret.result.score = 0

C17_Witness ==
    /\ ret.op = "keyword"
    /\ ret.sender = sender_mobile
    /\ ret.kw.urgency = 2 /\ ret.kw.money = 2 /\ ret.kw.threat = 0
    /\ Hits(ret.kw) >= 5
    /\ ret.result.score = 80

\* C18: the example prize message, under the default weights 0.3/0.3/0.4 and
\* the default threshold 0.85, is classified is_scam true when the oracle
\* reports is_scam true with confidence 1.0
C18_PrizeExample ==
    /\ ret.op = "detect"
    /\ ret.message = msg_prize
    /\ ~(cfg.enable_whitelist /\ ret.sender.whitelisted)
    /\ cfg.keyword_weight = DefaultKeywordWeight
    /\ cfg.pattern_weight = DefaultPatternWeight
    /\ cfg.llm_weight = DefaultLlmWeight
    /\ cfg.confidence_threshold = DefaultConfidenceThreshold
    /\ ret.reply.kind = "json" /\ ret.reply.numeric
    /\ ret.reply.is_scam /\ ret.reply.confidence = 100
    => ~ret.outcome.raised /\ ret.outcome.result.is_scam

(***************************************************************************)
(* Claims about construction and triage                                    *)
(***************************************************************************)
\* the configuration errors: weights off 1.0 by more than the tolerance, a
\* threshold outside [0,1], max_messages below 1
InvalidConfiguration(c) ==
    \/ c.keyword_weight + c.pattern_weight + c.llm_weight > 101
    \/ c.keyword_weight + c.pattern_weight + c.llm_weight < 99
    \/ c.confidence_threshold < 0
    \/ c.confidence_threshold > 100
    \/ c.max_messages < 1

\* C19: under a configuration with such an error the construction of
\* HoneypotSystem fails, and process_message never classifies, starts a
\* session or generates a response
C19_InvalidConfigBlocks ==
    InvalidConfiguration(cfg) =>
        /\ pc \in {"imported", "failed"}
        /\ ret.op = "construct" => pc = "failed"
        /\ ret.op \in {"none", "construct"}
        /\ ~conversation_active
        /\ memory = NoMemory
        /\ loop = IdleLoop

C19_Witness ==
    /\ pc = "failed"
    /\ cfg.max_messages < 1
    /\ ret.op = "construct"

\* a call of process_message is made in this step
IsProcessMessage == pc = "idle" /\ now' = now

\* C20: process_message classifies first, once; when the message is not
\* classified as scam it starts no conversation, generates no response and
\* leaves the strategy state and the running entity set as they were; the
\* classifier never changes either of them, and no later turn of a session
\* invokes it
C20_ClassifyFirst ==
    [][/\ IsProcessMessage =>
              /\ ret'.op = "detect"
              /\ state' = state
              /\ extracted_entities' = extracted_entities
              /\ ~ret'.raised /\ ~ret'.is_scam =>
                     /\ pc' = "idle"
                     /\ memory' = memory
                     /\ current_persona' = current_persona
                     /\ conversation_active' = conversation_active
                     /\ loop' = [result |-> [honeypot_activated |-> FALSE]]
              /\ ~ret'.raised /\ ret'.is_scam => pc' = "started"
       /\ ~IsProcessMessage => ret'.op # "detect" \/ ret' = ret]_vars

C20_Witness ==
    /\ ret.op = "detect"
    /\ ~ret.raised /\ ~ret.is_scam
    /\ pc = "idle"
    /\ state.message_count > 0
    /\ extracted_entities # <<>>
    /\ loop = [result |-> [honeypot_activated |-> FALSE]]

(***************************************************************************)
(* Claims about sessions sharing the strategy and the extractor (Spec)     *)
(***************************************************************************)
\* should_stop as a session would see it after this message alone: the message
\* analysed and extracted on a strategy state and a running set of its own
OwnAlone(message) ==
    should_stop(analyze_scammer_message(ConversationState(now), message).state,
                extract(<<>>, message, "scammer", "same").running, now)

\* the stop reasons that messages can bring about
MessageReasons ==
    {"max_messages_reached", "sufficient_entities_extracted", "scammer_shows_suspicion",
     "conversation_unproductive"}

\* C21: sessions are not isolated.  The first turn of every session works on the
\* strategy state and the running entity set exactly as the earlier sessions of the
\* process left them: its stop decision is should_stop on what they accumulated plus
\* the session's own message, the suspicion hits and entities of the earlier
\* sessions are still there afterwards and the message count goes on from theirs.
\* So the messages of a session A can make should_stop fire in a turn of a session
\* B whose own messages satisfy no stop condition (C21_Witness).
C21_NotIsolated ==
    [][pc = "started" /\ IsTurn =>
          /\ ret'.stop =
                 should_stop(analyze_scammer_message(state, ret'.message).state,
                             extract(extracted_entities, ret'.message, "scammer", "same").running,
                             now)
          /\ Len(state'.suspicion_indicators) >= Len(state.suspicion_indicators)
          /\ SubSeq(state'.suspicion_indicators, 1, Len(state.suspicion_indicators))
                 = state.suspicion_indicators
          /\ Len(extracted_entities') >= Len(extracted_entities)
          /\ SubSeq(extracted_entities', 1, Len(extracted_entities)) = extracted_entities
          /\ state'.message_count >= state.message_count
          /\ state'.start_time = state.start_time]_vars

\* the first turn of a later session has just stopped for a reason that messages
\* bring about, although its own message alone satisfies no stop condition
C21_Witness ==
    /\ ret.op = "generate_response"
    /\ calls >= 2
    /\ pc = "loop"
    /\ loop.messages_exchanged = 1
    /\ ret.message = loop.initial_message
    /\ ret.stop.stop
    /\ ret.stop.reason \in MessageReasons
    /\ ~OwnAlone(ret.message).stop

(***************************************************************************)
(* Claims about the analysis of inbound messages in a turn (Spec)          *)
(***************************************************************************)
\* C22: every turn of generate_response, whether it ends with a generated response
\* or with a stop, appends the suspicion patterns its message matches to the
\* suspicion-indicator list exactly once; no other step changes the list; so a
\* message matching exactly one pattern, arriving on an empty list, leaves it
\* below the threshold of 2.
C22_AnalysedOnce ==
    [][/\ IsTurn =>
              /\ state'.suspicion_indicators =
                     state.suspicion_indicators \o ret'.message.suspicion
              /\ Len(ret'.message.suspicion) = 1 /\ state.suspicion_indicators = <<>> =>
                     Len(state'.suspicion_indicators) < 2
       /\ ~IsTurn => state'.suspicion_indicators = state.suspicion_indicators]_vars

\* the inbound message of the turn equals, trimmed and lower-cased, the inbound
\* message of the turn before it
RepeatsPrevious ==
    /\ ret.op = "generate_response"
    /\ Lower(Strip(ret'.message.text)) = Lower(Strip(ret.message.text))

\* C23: in every turn of a session after its first, the repetition counter grows by
\* exactly 1 when the inbound message equals (trimmed, lower-cased) the inbound
\* message of the turn before and is reset to 0 when it differs; no other step
\* changes it; and since a session that has exchanged fewer than max_repetitions
\* messages cannot hold a run of more than max_repetitions identical messages, the
\* turn does not stop as unproductive then (with max_repetitions = 3 not before the
\* fourth identical message).
C23_RepetitionRun ==
    [][/\ IsTurn /\ pc = "loop" =>
              /\ state'.scammer_repetitions =
                     IF RepeatsPrevious THEN state.scammer_repetitions + 1 ELSE 0
              /\ loop.messages_exchanged < cfg.max_repetitions =>
                     ret'.stop.reason # "conversation_unproductive"
       /\ ~IsTurn => state'.scammer_repetitions = state.scammer_repetitions]_vars

(***************************************************************************)
(* Claims about the conversation loop (Spec)                               *)
(***************************************************************************)
\* C24: when should_stop fires with reason R in a turn of a session that has a
\* callback, the session ends with that turn: _conversation_loop returns without
\* asking the callback for another message, and the stop_reason of its result is R.
C24_StopTerminates ==
    [][IsTurn /\ loop.has_callback /\ ret'.stop.stop =>
          /\ pc' = "idle"
          /\ loop'.result.stop_reason = ret'.stop.reason]_vars

\* _conversation_loop returns in this step
LoopReturns == pc \in {"started", "loop"} /\ pc' = "idle"

\* C25: _conversation_loop makes at most max_messages calls of generate_response;
\* without a callback it makes exactly one and reports demo_mode; with a callback
\* it reports scammer_disengaged when the callback returned None, agent_disengaged
\* when generate_response returned None, and max_messages_reached otherwise, and
\* it goes on after a turn only below the limit and after a response.
C25_LoopBounded ==
    [][/\ LoopReturns =>
              /\ loop'.result.messages_exchanged <= cfg.max_messages
              /\ loop'.result.messages_exchanged >= 1
              /\ ~loop.has_callback =>
                     /\ loop'.result.messages_exchanged = 1
                     /\ loop'.result.stop_reason = "demo_mode"
              /\ loop.has_callback =>
                     loop'.result.stop_reason =
                         IF ~IsTurn THEN "scammer_disengaged"
                         ELSE IF ret'.response = NoResponse THEN "agent_disengaged"
                         ELSE "max_messages_reached"
       /\ IsTurn /\ pc' = "loop" =>
              /\ loop'.messages_exchanged < cfg.max_messages
              /\ ret'.response # NoResponse]_vars

(***************************************************************************)
(* Claims about the authenticity heuristics (SpecExtract)                  *)
(***************************************************************************)
\* the digits of the value use at most 2 distinct digits
FewDistinctDigits(value) == Cardinality(Range(SelectSeq(value, IsDigit))) <= 2

\* the leading six digits of the value are consecutive ascending
LeadingSixAscending(value) ==
    /\ Len(SelectSeq(value, IsDigit)) >= 6
    /\ \A i \in 1..5 :
           DigitVal(SelectSeq(value, IsDigit)[i + 1]) = DigitVal(SelectSeq(value, IsDigit)[i]) + 1

\* C26: every bank-account or phone-number entity returned for a counterparty
\* message whose normalized value uses at most 2 distinct digits, or whose leading
\* six digits are consecutive ascending, has confidence needs_verification, and no
\* such entity is among the high-value entities of the running set.
C26_DigitHeuristics ==
    /\ ret.op = "extract" /\ ret.role = "scammer" =>
           \A k \in 1..Len(ret.entities) :
               /\ ret.entities[k].entity_type \in {"bank_account", "phone_number"}
               /\ \/ FewDistinctDigits(ret.entities[k].normalized_value)
                  \/ LeadingSixAscending(ret.entities[k].normalized_value)
               => ret.entities[k].confidence = "needs_verification"
    /\ \A i \in 1..Len(extracted_entities) :
           /\ extracted_entities[i].entity_type \in {"bank_account", "phone_number"}
           /\ extracted_entities[i].confidence \in {"high", "medium"}
           => /\ ~FewDistinctDigits(extracted_entities[i].normalized_value)
              /\ ~LeadingSixAscending(extracted_entities[i].normalized_value)

(***************************************************************************)
(* Claims about the strategy state over sessions and turns (Spec)          *)
(***************************************************************************)
\* C27: in every reachable state, after any number of sessions and turns, the
\* strategy's message_count does not exceed the configured max_messages.
C27_CountWithinLimit == state.message_count <= cfg.max_messages

\* the limit has been reached in an earlier session and the first turn of a later
\* one has just been stopped by it
C27_Witness ==
    /\ state.message_count = cfg.max_messages
    /\ ret.op = "generate_response"
    /\ ret.stop = [stop |-> TRUE, reason |-> "max_messages_reached"]
    /\ ret.response = ExitText
    /\ calls > cfg.max_messages

(***************************************************************************)
(* Claims about the order of the phases (SpecStrategy)                     *)
(***************************************************************************)
\* the place of a phase in the order buildTrust < extractIntel < delayProbe < exit
PhaseRank(phase) ==
    CASE phase = "build_trust" -> 0
      [] phase = "extract_intel" -> 1
      [] phase = "delay_probe" -> 2
      [] phase = "exit" -> 3

\* C28 as claimed: whatever phase determine_phase returns, the phase for any later
\* message count and any running set grown from the current one is not earlier in
\* the order; in particular exit is followed by exit.
C28_AsClaimed ==
    ret.op = "determine_phase" =>
        \A m2 \in state.message_count..MaxCount, conv \in Conversations :
            PhaseRank(PhaseReference(m2,
                                     HighMediumCount(ExtractAll(extracted_entities, conv)),
                                     cfg.max_messages))
                >= PhaseRank(ret.phase)

\* C28 (amended): the phase for a later message count and a grown running set is
\* earlier in the order than the phase determine_phase returns now in one case
\* only: exit, returned with no high-value entity at messageCount >= 8, is
\* followed by delayProbe when a high-value entity has been extracted and
\* messageCount is still below max_messages - 3.  buildTrust and extractIntel
\* never come back, and exit returned with a high-value entity, or at
\* messageCount >= max_messages - 3, stays exit.
C28_PhaseOrder ==
    ret.op = "determine_phase" =>
        \A m2 \in state.message_count..MaxCount, conv \in Conversations :
            LET later == PhaseReference(m2,
                                        HighMediumCount(ExtractAll(extracted_entities, conv)),
                                        cfg.max_messages)
            IN \/ PhaseRank(later) >= PhaseRank(ret.phase)
               \/ /\ ret.phase = "exit"
                  /\ later = "delay_probe"
                  /\ HighMediumCount(extracted_entities) = 0
                  /\ HighMediumCount(ExtractAll(extracted_entities, conv)) >= 1
                  /\ state.message_count >= 8
                  /\ m2 < cfg.max_messages - 3

\* determine_phase has returned exit for a session without high-value entities, and
\* one more counterparty message with an account number would make it delayProbe
C28_Witness ==
    /\ ret.op = "determine_phase"
    /\ ret.phase = "exit"
    /\ HighMediumCount(extracted_entities) = 0
    /\ PhaseReference(state.message_count,
                      HighMediumCount(ExtractAll(extracted_entities,
                                                 <<Said(msg_pay, "scammer")>>)),
                      cfg.max_messages) = "delay_probe"

(***************************************************************************)
(* Claims about stop conditions over later turns (Spec)                    *)
(***************************************************************************)
\* C29: once a turn of generate_response has ended on a stop condition, every
\* later turn of the process ends on a stop condition too, whatever message it
\* receives: a turn that follows a stopped turn returns the exit message and
\* generates no response.
C29_StopAbsorbing ==
    [][IsTurn /\ ret.op = "generate_response" /\ ret.stop.stop =>
          /\ ret'.stop.stop
          /\ ret'.response = ExitText]_vars

(***************************************************************************)
(* Claims about the consistency of a classification (SpecDetect)           *)
(***************************************************************************)
\* C30: every result that detector.detect returns is consistent: when is_scam is
\* true the scam type is not not_scam, for every message, sender, oracle reply,
\* threshold and weights.
C30_ScamHasType ==
    Classified /\ ret.outcome.result.is_scam => ret.outcome.result.scam_type # "not_scam"

====
